---------------------------- MODULE Spec2Model ----------------------------
(***************************************************************************)
(* Model of the link-redirect worker of src/src/index.js.                  *)
(*                                                                         *)
(* A string is a sequence of one-character strings.  A JavaScript value is *)
(* a tagged record.  The worker's fetch handler is split at its suspension *)
(* points (the awaits of getLinkFromSupabase); every step between two      *)
(* awaits is one action.                                                   *)
(*                                                                         *)
(* URL strings are drawn from the subset "scheme://host[/path][?query]"    *)
(* or strings without any scheme, over an alphabet that needs no           *)
(* percent-encoding; ParseURL is the URL parser on that subset.            *)
(***************************************************************************)
EXTENDS Integers, Sequences, FiniteSets, TLC

(***************************************************************************)
(* Strings                                                                 *)
(***************************************************************************)
LowerCase ==
  <<"a","b","c","d","e","f","g","h","i","j","k","l","m",
    "n","o","p","q","r","s","t","u","v","w","x","y","z">>

UpperCase ==
  <<"A","B","C","D","E","F","G","H","I","J","K","L","M",
    "N","O","P","Q","R","S","T","U","V","W","X","Y","Z">>

Digits ==
  {"0","1","2","3","4","5","6","7","8","9"}

Range(s) ==
  {s[i] : i \in 1..Len(s)}

\* Op applied to the value of v, v evaluated once (a const binding)
Const(v, Op(_)) ==
  CHOOSE y \in {Op(x) : x \in {v}} : TRUE

\* String.prototype.toLowerCase, one character
ToLowerChar(c) ==
  IF \E i \in 1..Len(UpperCase) : UpperCase[i] = c
  THEN LowerCase[CHOOSE i \in 1..Len(UpperCase) : UpperCase[i] = c]
  ELSE c

\* String.prototype.toLowerCase
toLowerCase(s) ==
  Const(s, LAMBDA v : [i \in 1..Len(v) |-> ToLowerChar(v[i])])

\* String.prototype.startsWith
startsWith(s, p) ==
  /\ Len(s) >= Len(p)
  /\ SubSeq(s, 1, Len(p)) = p

\* index of the first character of s that lies in set cs, Len(s)+1 if none
IndexOfAny(s, cs) ==
  Const(s, LAMBDA v :
    IF \E i \in 1..Len(v) : v[i] \in cs
    THEN CHOOSE i \in 1..Len(v) : v[i] \in cs /\ \A j \in 1..(i-1) : v[j] \notin cs
    ELSE Len(v) + 1)

\* s.split(c)[0]
SplitFirst(s, c) ==
  Const(s, LAMBDA v : SubSeq(v, 1, IndexOfAny(v, {c}) - 1))

\* s.split(c), every piece
RECURSIVE Split(_, _)
Split(s, c) ==
  IF IndexOfAny(s, {c}) > Len(s)
  THEN <<s>>
  ELSE <<SubSeq(s, 1, IndexOfAny(s, {c}) - 1)>>
         \o Split(SubSeq(s, IndexOfAny(s, {c}) + 1, Len(s)), c)

\* Array.prototype.join
RECURSIVE Join(_, _)
Join(pieces, sep) ==
  IF pieces = <<>> THEN <<>>
  ELSE IF Len(pieces) = 1 THEN pieces[1]
  ELSE pieces[1] \o sep \o Join(Tail(pieces), sep)

(***************************************************************************)
(* JavaScript values                                                       *)
(***************************************************************************)
Undefined == [t |-> "undefined"]

Null == [t |-> "null"]

Bool(b) == [t |-> "boolean", b |-> b]

Num(n) == [t |-> "number", n |-> n]

Str(s) == [t |-> "string", s |-> s]

Arr(items) == [t |-> "array", items |-> items]

Obj(f) == [t |-> "object", f |-> f]

\* ToBoolean: undefined, null, false, 0 and "" are falsy
Truthy(v) ==
  CASE v.t = "undefined" -> FALSE
    [] v.t = "null"      -> FALSE
    [] v.t = "boolean"   -> v.b
    [] v.t = "number"    -> v.n # 0
    [] v.t = "string"    -> v.s # <<>>
    [] OTHER             -> TRUE

\* a thrown exception, as the completion of an evaluation
Throw(name) == [t |-> "throw", name |-> name]

IsThrow(v) == v.t = "throw"

\* property read v[k]: throws on undefined and null, own properties of
\* objects, length and indices of arrays and strings, undefined otherwise
GetProp(v, k) ==
  CASE v.t \in {"undefined", "null"} -> Throw("TypeError")
    [] v.t = "object" ->
         IF k \in DOMAIN v.f THEN v.f[k] ELSE Undefined
    [] v.t = "array" ->
         IF k = "length" THEN Num(Len(v.items))
         ELSE IF k = "0" /\ Len(v.items) > 0 THEN v.items[1]
         ELSE Undefined
    [] v.t = "string" ->
         IF k = "length" THEN Num(Len(v.s))
         ELSE IF k = "0" /\ Len(v.s) > 0 THEN Str(<<v.s[1]>>)
         ELSE Undefined
    [] OTHER -> Undefined

(***************************************************************************)
(* Slug extractor                                                          *)
(***************************************************************************)

INDEX_HTML == <<"i","n","d","e","x",".","h","t","m","l">>

API_PREFIX == <<"a","p","i","/">>

SlugMinLen == 3

SlugMaxLen == 30

\* the character class [a-z0-9-] under the i flag
SlugChars ==
  Range(LowerCase) \cup Range(UpperCase) \cup Digits \cup {"-"}

\* the pattern with the upper length bound off by one
slugPattern_OffByOne(path) ==
  /\ Len(path) >= SlugMinLen
  /\ Len(path) < SlugMaxLen
  /\ \A i \in 1..Len(path) : path[i] \in SlugChars

\* /^[a-z0-9-]{3,30}$/i .test(path)
slugPattern(path) ==
  /\ Len(path) >= SlugMinLen
  /\ Len(path) <= SlugMaxLen
  /\ \A i \in 1..Len(path) : path[i] \in SlugChars

\* pathname.replace(/^\//, '')
StripLeadingSlash(pathname) ==
  IF pathname # <<>> /\ Head(pathname) = "/" THEN Tail(pathname) ELSE pathname

extractSlug(pathname) ==
  LET path == SplitFirst(SplitFirst(StripLeadingSlash(pathname), "?"), "#")
  IN  IF path = <<>> \/ path = INDEX_HTML \/ startsWith(path, API_PREFIX)
      THEN Null
      ELSE IF ~slugPattern(path)
      THEN Null
      ELSE Str(toLowerCase(path))

(***************************************************************************)
(* URL and URLSearchParams                                                 *)
(***************************************************************************)
HTTPS == <<"h","t","t","p","s",":","/","/">>

HTTP == <<"h","t","t","p",":","/","/">>

Schemes == {HTTPS, HTTP}

HostChars ==
  Range(LowerCase) \cup Range(UpperCase) \cup Digits \cup {"-", "."}

\* the URL record of protocol sch, host host and the rest after the host
ParseAfterHost(sch, host, afterHost) ==
  LET pathEnd == IndexOfAny(afterHost, {"?", "#"})
      hashAt  == IndexOfAny(afterHost, {"#"})
  IN  IF host = <<>> \/ \E i \in 1..Len(host) : host[i] \notin HostChars
      THEN Throw("TypeError")
      ELSE [t        |-> "url",
            protocol |-> sch,
            hostname |-> toLowerCase(host),
            pathname |-> IF pathEnd = 1 THEN <<"/">>
                         ELSE SubSeq(afterHost, 1, pathEnd - 1),
            query    |-> SubSeq(afterHost, pathEnd + 1, hashAt - 1),
            hash     |-> SubSeq(afterHost, hashAt, Len(afterHost))]

\* the URL record of protocol sch and the rest after "//"
ParseAfterScheme(sch, rest) ==
  Const(IndexOfAny(rest, {"/", "?", "#"}), LAMBDA hostEnd :
    Const(SubSeq(rest, 1, hostEnd - 1), LAMBDA host :
      Const(SubSeq(rest, hostEnd, Len(rest)), LAMBDA afterHost :
        ParseAfterHost(sch, host, afterHost))))

\* new URL(s) with no base: the parsed URL record, or a TypeError
ParseURL(s) ==
  Const(s, LAMBDA v :
    IF ~\E sch \in Schemes : startsWith(v, sch)
    THEN Throw("TypeError")
    ELSE Const(CHOOSE p \in Schemes : startsWith(v, p), LAMBDA sch :
           Const(SubSeq(v, Len(sch) + 1, Len(v)), LAMBDA rest :
             ParseAfterScheme(sch, rest))))

\* url.search
Search(url) ==
  IF url.query = <<>> THEN <<>> ELSE <<"?">> \o url.query

\* one "name=value" piece of a query string as a <<name, value>> pair
ParsePair(piece) ==
  LET eq == IndexOfAny(piece, {"="})
  IN  <<SubSeq(piece, 1, eq - 1), SubSeq(piece, eq + 1, Len(piece))>>

RECURSIVE ParsePieces(_)
ParsePieces(pieces) ==
  IF pieces = <<>> THEN <<>>
  ELSE IF Head(pieces) = <<>> THEN ParsePieces(Tail(pieces))
  ELSE <<ParsePair(Head(pieces))>> \o ParsePieces(Tail(pieces))

\* new URLSearchParams(init): the list of <<name, value>> pairs
URLSearchParams(init) ==
  ParsePieces(Split(IF init # <<>> /\ Head(init) = "?" THEN Tail(init) ELSE init, "&"))

\* URLSearchParams.prototype.set: the first pair named name takes the
\* value and the later ones are removed; appended when there is none
RECURSIVE RemoveNamed(_, _)
RemoveNamed(list, name) ==
  IF list = <<>> THEN <<>>
  ELSE IF Head(list)[1] = name THEN RemoveNamed(Tail(list), name)
  ELSE <<Head(list)>> \o RemoveNamed(Tail(list), name)

ParamsSet(list, name, value) ==
  IF \E i \in 1..Len(list) : list[i][1] = name
  THEN LET first == CHOOSE i \in 1..Len(list) :
                      list[i][1] = name /\ \A j \in 1..(i-1) : list[j][1] # name
       IN  SubSeq(list, 1, first - 1) \o <<(<<name, value>>)>>
             \o RemoveNamed(SubSeq(list, first + 1, Len(list)), name)
  ELSE Append(list, <<name, value>>)

\* URLSearchParams.prototype.toString
SerializeParams(list) ==
  Join([i \in 1..Len(list) |-> list[i][1] \o <<"=">> \o list[i][2]], <<"&">>)

\* URL.prototype.toString of a URL whose query list is list
SerializeURL(url, list) ==
  url.protocol \o url.hostname \o url.pathname
    \o (IF list = <<>> THEN <<>> ELSE <<"?">> \o SerializeParams(list))
    \o url.hash

\* url.href of a parsed URL
Href(url) ==
  url.protocol \o url.hostname \o url.pathname \o Search(url) \o url.hash

DigitChars == <<"0","1","2","3","4","5","6","7","8","9">>

\* ToString of the values the model draws (numbers are 0..9)
JsToString(v) ==
  CASE v.t = "string"    -> v.s
    [] v.t = "number"    -> <<DigitChars[v.n + 1]>>
    [] v.t = "boolean"   -> IF v.b THEN <<"t","r","u","e">> ELSE <<"f","a","l","s","e">>
    [] v.t = "null"      -> <<"n","u","l","l">>
    [] v.t = "undefined" -> <<"u","n","d","e","f","i","n","e","d">>
    [] OTHER             -> <<"[","o","b","j","e","c","t","]">>

\* encodeURIComponent: unreserved characters are kept, the others escaped
Unreserved ==
  Range(LowerCase) \cup Range(UpperCase) \cup Digits
    \cup {"-", "_", ".", "!", "~", "*", "'", "(", ")"}

RECURSIVE encodeURIComponent(_)
encodeURIComponent(s) ==
  IF s = <<>> THEN <<>>
  ELSE (IF Head(s) \in Unreserved THEN <<Head(s)>> ELSE <<"%", Head(s)>>)
         \o encodeURIComponent(Tail(s))

(***************************************************************************)
(* URL composer                                                            *)
(***************************************************************************)
UTM_SOURCE == <<"u","t","m","_","s","o","u","r","c","e">>

UTM_MEDIUM == <<"u","t","m","_","m","e","d","i","u","m">>

UTM_CAMPAIGN == <<"u","t","m","_","c","a","m","p","a","i","g","n">>

UTM_CONTENT == <<"u","t","m","_","c","o","n","t","e","n","t">>

\* the exclusion list with utm_content forgotten
UtmKeys_Short == {UTM_SOURCE, UTM_MEDIUM, UTM_CAMPAIGN}

\* the literal list of line 72
UtmKeys == {UTM_SOURCE, UTM_MEDIUM, UTM_CAMPAIGN, UTM_CONTENT}

\* if (linkData.<field>) target.searchParams.set(<name>, linkData.<field>)
SetIfConfigured(list, linkData, field, name) ==
  IF Truthy(GetProp(linkData, field))
  THEN ParamsSet(list, name, JsToString(GetProp(linkData, field)))
  ELSE list

\* the for loop of lines 70-75 over requestParams.entries()
RECURSIVE PassThrough(_, _)
PassThrough(list, requestParams) ==
  IF requestParams = <<>> THEN list
  ELSE PassThrough(
         IF Head(requestParams)[1] \notin UtmKeys
         THEN ParamsSet(list, Head(requestParams)[1], Head(requestParams)[2])
         ELSE list,
         Tail(requestParams))

\* the composer passing the inbound query through whatever the flag says
buildTargetUrl_AlwaysPass(targetUrl, linkData, requestUrl) ==
  LET target == ParseURL(JsToString(targetUrl))
  IN  IF IsThrow(target)
      THEN [value |-> targetUrl, log |-> <<"Error building target URL:">>]
      ELSE
        LET requestParams == URLSearchParams(Search(requestUrl))
            p0 == URLSearchParams(Search(target))
            p1 == SetIfConfigured(p0, linkData, "utm_source", UTM_SOURCE)
            p2 == SetIfConfigured(p1, linkData, "utm_medium", UTM_MEDIUM)
            p3 == SetIfConfigured(p2, linkData, "utm_campaign", UTM_CAMPAIGN)
            p4 == SetIfConfigured(p3, linkData, "utm_content", UTM_CONTENT)
        IN  [value |-> Str(SerializeURL(target, PassThrough(p4, requestParams))),
             log   |-> <<>>]

\* buildTargetUrl: the returned value and what it logged
buildTargetUrl(targetUrl, linkData, requestUrl) ==
  LET target == ParseURL(JsToString(targetUrl))
  IN  IF IsThrow(target)
      THEN [value |-> targetUrl, log |-> <<"Error building target URL:">>]
      ELSE
        LET requestParams == URLSearchParams(Search(requestUrl))
            p0 == URLSearchParams(Search(target))
            p1 == SetIfConfigured(p0, linkData, "utm_source", UTM_SOURCE)
            p2 == SetIfConfigured(p1, linkData, "utm_medium", UTM_MEDIUM)
            p3 == SetIfConfigured(p2, linkData, "utm_campaign", UTM_CAMPAIGN)
            p4 == SetIfConfigured(p3, linkData, "utm_content", UTM_CONTENT)
            p5 == IF Truthy(GetProp(linkData, "parameter_pass_through"))
                  THEN PassThrough(p4, requestParams)
                  ELSE p4
        IN  [value |-> Str(SerializeURL(target, p5)), log |-> <<>>]

(***************************************************************************)
(* Responses                                                               *)
(***************************************************************************)
HttpRedirect == 301

HttpNotFound == 404

HttpError == 500

\* line 144
ConfigErrorResponse ==
  [t |-> "response", status |-> HttpError, body |-> "Service configuration error", headers |-> <<>>]

\* lines 156-161
SlugNotFoundResponse ==
  [t |-> "response", status |-> HttpNotFound, body |-> "Link not found",
   headers |-> [ContentType |-> "text/plain"]]

\* a not-found response that names its cause
LinkNotFoundResponse_Verbose ==
  [t |-> "response", status |-> HttpNotFound, body |-> "Link not found or inactive",
   headers |-> [ContentType |-> "text/plain"]]

\* lines 180-185
LinkNotFoundResponse ==
  [t |-> "response", status |-> HttpNotFound, body |-> "Link not found",
   headers |-> [ContentType |-> "text/plain"]]

\* lines 198-203
InternalErrorResponse ==
  [t |-> "response", status |-> HttpError, body |-> "Internal server error",
   headers |-> [ContentType |-> "text/plain"]]

\* a redirect that takes any string as its Location
ResponseRedirect_Lenient(url, status) ==
  [t |-> "response", status |-> status, body |-> "",
   headers |-> [Location |-> JsToString(url)]]

\* Response.redirect(url, status): a TypeError when url does not parse
ResponseRedirect(url, status) ==
  LET parsed == ParseURL(JsToString(url))
  IN  IF IsThrow(parsed)
      THEN Throw("TypeError")
      ELSE [t |-> "response", status |-> status, body |-> "",
            headers |-> [Location |-> Href(parsed)]]

(***************************************************************************)
(* Link resolver                                                           *)
(***************************************************************************)
\* the status check written as if (!link.status)
ResolverBody_Falsy(data) ==
  IF ~Truthy(data) \/ GetProp(data, "length") = Num(0)
  THEN Null
  ELSE LET link == GetProp(data, "0")
       IN  IF IsThrow(GetProp(link, "status"))
           THEN GetProp(link, "status")
           ELSE IF ~Truthy(GetProp(link, "status"))
           THEN Null
           ELSE link

\* lines 117-128, run when response.json() resolved with data: the
\* completion (a value or a throw) of the try block
ResolverBody(data) ==
  IF ~Truthy(data) \/ GetProp(data, "length") = Num(0)
  THEN Null
  ELSE LET link == GetProp(data, "0")
       IN  IF IsThrow(GetProp(link, "status"))
           THEN GetProp(link, "status")
           ELSE IF GetProp(link, "status") # Undefined
                   /\ GetProp(link, "status") = Bool(FALSE)
           THEN Null
           ELSE link

\* the catch of lines 129-132: the value getLinkFromSupabase resolves to
\* and what it logged
ResolverCatch(completion) ==
  IF IsThrow(completion)
  THEN [value |-> Null, log |-> <<"Error querying Supabase:">>]
  ELSE [value |-> completion, log |-> <<>>]

(***************************************************************************)
(* The fetch handler                                                       *)
(***************************************************************************)
\* the check of the credential forgotten
ConfigMissing_UrlOnly(e) ==
  ~Truthy(e.SUPABASE_URL)

\* line 142
ConfigMissing(e) ==
  ~Truthy(e.SUPABASE_URL) \/ ~Truthy(e.SUPABASE_SERVICE_ROLE_KEY)

\* the slug check forgotten
SlugRejected_Never(s) ==
  FALSE

\* line 154: if (!slug)
SlugRejected(s) ==
  ~Truthy(s)

\* line 166: hostname.replace(/^www\./, '')
WWW == <<"w","w","w",".">>

\* the prefix removed as often as it occurs at the start
RECURSIVE NormalizeDomain_Repeated(_)
NormalizeDomain_Repeated(hostname) ==
  IF startsWith(hostname, WWW)
  THEN NormalizeDomain_Repeated(SubSeq(hostname, Len(WWW) + 1, Len(hostname)))
  ELSE hostname

NormalizeDomain(hostname) ==
  IF startsWith(hostname, WWW)
  THEN SubSeq(hostname, Len(WWW) + 1, Len(hostname))
  ELSE hostname

\* the handler tail without the check of target_url
HandlerTail_NoTargetCheck(linkData, url) ==
  IF ~Truthy(linkData)
  THEN [completion |-> LinkNotFoundResponse, log |-> <<>>]
  ELSE LET built == buildTargetUrl(GetProp(linkData, "target_url"), linkData, url)
       IN  [completion |-> ResponseRedirect(built.value, HttpRedirect),
            log        |-> built.log \o <<"Redirecting to:">>]

\* the handler tail redirecting to target_url instead of the composed URL
HandlerTail_RawTarget(linkData, url) ==
  IF ~Truthy(linkData) \/ ~Truthy(GetProp(linkData, "target_url"))
  THEN [completion |-> LinkNotFoundResponse, log |-> <<>>]
  ELSE LET built == buildTargetUrl(GetProp(linkData, "target_url"), linkData, url)
       IN  [completion |-> ResponseRedirect(GetProp(linkData, "target_url"),
                                            HttpRedirect),
            log        |-> built.log \o <<"Redirecting to:">>]

\* lines 178-194, run with the value getLinkFromSupabase resolved to: the
\* completion (a response or a throw) and what was logged
HandlerTail(linkData, url) ==
  IF ~Truthy(linkData) \/ ~Truthy(GetProp(linkData, "target_url"))
  THEN [completion |-> LinkNotFoundResponse, log |-> <<>>]
  ELSE LET built == buildTargetUrl(GetProp(linkData, "target_url"), linkData, url)
       IN  [completion |-> ResponseRedirect(built.value, HttpRedirect),
            log        |-> built.log \o <<"Redirecting to:">>]

\* the handler without its catch-all
HandlerCatch_Rethrow(result) ==
  result

\* the catch of lines 196-204
HandlerCatch(result) ==
  IF IsThrow(result.completion)
  THEN [completion |-> InternalErrorResponse,
        log        |-> result.log \o <<"Worker error:">>]
  ELSE result

(***************************************************************************)
(* Inputs                                                                  *)
(***************************************************************************)
\* most query parameters on an inbound request
MaxParams == 2

REF == <<"r","e","f">>

HACK == <<"h","a","c","k">>

\* the name=value pairs inbound query strings are made of
QueryPairs ==
  { <<UTM_SOURCE, HACK>>, <<UTM_MEDIUM, HACK>>, <<UTM_CAMPAIGN, HACK>>,
    <<UTM_CONTENT, HACK>>, <<REF, <<"x">> >>, <<REF, HACK>> }

\* every sequence of at most n elements of S
RECURSIVE SeqsUpTo(_, _)
SeqsUpTo(S, n) ==
  IF n = 0 THEN {<<>>}
  ELSE SeqsUpTo(S, n - 1)
         \cup {Append(q, e) : q \in SeqsUpTo(S, n - 1), e \in S}

Searches ==
  { IF q = <<>> THEN <<>> ELSE <<"?">> \o SerializeParams(q) :
      q \in SeqsUpTo(QueryPairs, MaxParams) }

Hosts ==
  { <<"w","w","w",".","g",".","a","i">>, <<"g",".","i","o">>,
    <<"w","w","w",".","w","w","w",".","g",".","a","i">>,
    <<"a",".","w","w","w",".","g",".","a","i">>,
    <<"w","w","w","x",".","i","o">>,
    <<"W","W","W",".","G",".","a","i">> }

Paths ==
  { <<"/","a","b","c">>, <<"/","A","B","-","1">>, <<"/">>, <<"/","a","b">>,
    <<"/">> \o INDEX_HTML, <<"/">> \o API_PREFIX \o <<"x">> }

\* request.url of the inbound requests: every host with every path and no
\* query, and two paths of one host with every query
RequestURLs ==
  { HTTPS \o h \o p : h \in Hosts, p \in Paths }
  \cup
  { HTTPS \o <<"w","w","w",".","g",".","a","i">> \o p \o q :
      p \in { <<"/","A","B","-","1">>, <<"/">> }, q \in Searches }

Envs ==
  [ SUPABASE_URL : {Undefined, Str(<<>>), Str(HTTPS \o <<"d","b",".","c","o">>)},
    SUPABASE_SERVICE_ROLE_KEY : {Undefined, Str(<<"k">>)} ]

X_CO == HTTPS \o <<"x",".","c","o">>

D_EX == HTTPS \o <<"d",".","e","x","/","p","?">> \o UTM_SOURCE
          \o <<"=","o","l","d","&","a","=","1">>

\* target_url values of a row: absent, null, empty, two absolute URLs, a
\* string that is no absolute URL, a number
TargetUrls ==
  { Undefined, Null, Str(<<>>), Str(X_CO), Str(D_EX),
    Str(<<"x",".","c","o","/","p">>), Num(5) }

Row(target, status, pass, src, med, cmp, cnt) ==
  Obj([target_url |-> target, status |-> status,
       parameter_pass_through |-> pass, utm_source |-> src,
       utm_medium |-> med, utm_campaign |-> cmp, utm_content |-> cnt])

\* the rows the datastore may hold: every target_url with every status,
\* and every tracking configuration on the two absolute URLs
Rows ==
  { Row(tu, st, Undefined, Undefined, Undefined, Undefined, Undefined) :
      tu \in TargetUrls, st \in {Undefined, Null, Bool(TRUE), Bool(FALSE)} }
  \cup
  { Row(tu, st, pass, src, med, cmp, cnt) :
      tu \in {Str(X_CO), Str(D_EX)},
      st \in {Undefined},
      pass \in {Undefined, Bool(TRUE), Bool(FALSE)},
      src \in {Undefined, Str(<<>>), Str(<<"n","l">>)},
      med \in {Undefined, Str(<<"e","m">>)},
      cmp \in {Undefined, Str(<<"c">>)},
      cnt \in {Undefined, Str(<<"c">>)} }

\* what response.json() may resolve with: arrays of rows, and JSON values
\* that are no array of rows (scalars, arrays of scalars, an error object,
\* objects holding a row under the key "0")
Bodies ==
  { Arr(<<>>), Null, Num(0), Num(5), Bool(TRUE), Str(<<>>), Str(<<"a","b">>),
    Arr(<<Null>>), Arr(<<Num(5)>>), Arr(<<Str(X_CO)>>),
    Obj([error |-> Str(<<"a","b">>)]) }
  \cup { Obj("0" :> Row(tu, st, Undefined, Undefined, Undefined, Undefined,
                        Undefined)) :
           tu \in TargetUrls, st \in {Undefined, Bool(FALSE)} }
  \cup { Arr(<<row>>) : row \in Rows }
  \cup { Arr(<<row, Row(Str(X_CO), Bool(TRUE), Undefined, Undefined,
                        Undefined, Undefined, Undefined)>>) :
           row \in { Row(tu, Bool(FALSE), Undefined, Undefined, Undefined,
                         Undefined, Undefined) : tu \in TargetUrls } }

\* the HTTP statuses the datastore may answer with
Statuses == {200, 401, 500}

(***************************************************************************)
(* State                                                                   *)
(***************************************************************************)
VARIABLES
  env,        \* the configuration binding passed to fetch
  request,    \* request[r]: request.url of request r
  pc,         \* pc[r]: where request r's handler is suspended
  pathname,   \* pathname[r]: the pathname extractSlug is called with
  slug,       \* slug[r]: the handler's local slug
  domain,     \* domain[r]: the handler's local domain
  calls,      \* calls[r]: the outbound datastore calls r issued
  reply,      \* reply[r]: what the datastore answered to r so far
  responses,  \* responses[r]: the responses r's handler returned
  uncaught,   \* uncaught[r]: an exception left r's handler
  console     \* the worker's log, <<request, message>> lines

vars ==
  <<env, request, pc, pathname, slug, domain, calls, reply, responses, uncaught,
    console>>

Ids == DOMAIN request

NoReply == [fetch |-> "pending", status |-> 0, body |-> "pending", data |-> Undefined]

InitWith(ids, envs, urls) ==
  /\ env \in envs
  /\ request \in [ids -> urls]
  /\ pc = [r \in ids |-> "start"]
  /\ pathname = [r \in ids |-> Undefined]
  /\ slug = [r \in ids |-> Undefined]
  /\ domain = [r \in ids |-> Undefined]
  /\ calls = [r \in ids |-> <<>>]
  /\ reply = [r \in ids |-> NoReply]
  /\ responses = [r \in ids |-> <<>>]
  /\ uncaught = [r \in ids |-> FALSE]
  /\ console = <<>>

Init ==
  InitWith({1}, Envs, RequestURLs)

Log(r, msgs) ==
  console \o [i \in 1..Len(msgs) |-> <<r, msgs[i]>>]

\* the handler of r ends with result: its response is returned, or its
\* exception leaves the handler
Finish(r, result) ==
  /\ pc' = [pc EXCEPT ![r] = "done"]
  /\ console' = Log(r, result.log)
  /\ IF IsThrow(result.completion)
     THEN /\ uncaught' = [uncaught EXCEPT ![r] = TRUE]
          /\ UNCHANGED responses
     ELSE /\ responses' = [responses EXCEPT ![r] = Append(@, result.completion)]
          /\ UNCHANGED uncaught

\* a lookup that found nothing is issued a second time
Resume_Retry(r, resolved) ==
  IF resolved.value = Null /\ Len(calls[r]) < 2
  THEN /\ calls' = [calls EXCEPT ![r] = Append(@, @[1])]
       /\ pc' = [pc EXCEPT ![r] = "awaitFetch"]
       /\ console' = Log(r, resolved.log)
       /\ UNCHANGED <<responses, uncaught>>
  ELSE LET tail == HandlerCatch(HandlerTail(resolved.value, ParseURL(request[r])))
       IN  /\ Finish(r, [completion |-> tail.completion,
                         log |-> resolved.log \o tail.log])
           /\ UNCHANGED calls

\* the request URL kept in one place for all handlers: the handler reads
\* the URL of the request that arrived last
Resume_SharedUrl(r, resolved) ==
  LET last == CHOOSE q \in Ids : \A p \in Ids : p <= q
      tail == HandlerCatch(HandlerTail(resolved.value, ParseURL(request[last])))
  IN  /\ Finish(r, [completion |-> tail.completion, log |-> resolved.log \o tail.log])
      /\ UNCHANGED calls

\* lines 171-194: getLinkFromSupabase resolved to resolved.value; the handler
\* goes on to its response and issues no further call
Resume(r, resolved) ==
  LET tail == HandlerCatch(HandlerTail(resolved.value, ParseURL(request[r])))
  IN  /\ Finish(r, [completion |-> tail.completion, log |-> resolved.log \o tail.log])
      /\ UNCHANGED calls

(***************************************************************************)
(* Actions                                                                 *)
(***************************************************************************)
\* lines 140-176: the handler of r runs from its start to its first await,
\* the fetch of getLinkFromSupabase, or to a response
Start(r) ==
  /\ pc[r] = "start"
  /\ UNCHANGED <<env, request, reply>>
  /\ IF ConfigMissing(env)
     THEN /\ Finish(r, [completion |-> ConfigErrorResponse,
                        log |-> <<"Missing Supabase configuration">>])
          /\ UNCHANGED <<pathname, slug, domain, calls>>
     ELSE
       LET url == ParseURL(request[r])
       IN  IF IsThrow(url)
           THEN /\ Finish(r, HandlerCatch([completion |-> url, log |-> <<>>]))
                /\ UNCHANGED <<pathname, slug, domain, calls>>
           ELSE IF SlugRejected(extractSlug(url.pathname))
           THEN /\ Finish(r, [completion |-> SlugNotFoundResponse, log |-> <<>>])
                /\ pathname' = [pathname EXCEPT ![r] = Str(url.pathname)]
                /\ slug' = [slug EXCEPT ![r] = extractSlug(url.pathname)]
                /\ UNCHANGED <<domain, calls>>
           ELSE /\ pathname' = [pathname EXCEPT ![r] = Str(url.pathname)]
                /\ slug' = [slug EXCEPT ![r] = extractSlug(url.pathname)]
                /\ domain' = [domain EXCEPT ![r] = Str(NormalizeDomain(url.hostname))]
                /\ console' = Log(r, <<"Looking up link:">>)
                /\ calls' = [calls EXCEPT ![r] = Append(@,
                     [base          |-> env.SUPABASE_URL,
                      slug          |-> encodeURIComponent(
                                          JsToString(extractSlug(url.pathname))),
                      domain        |-> encodeURIComponent(
                                          NormalizeDomain(url.hostname)),
                      apikey        |-> env.SUPABASE_SERVICE_ROLE_KEY,
                      authorization |-> env.SUPABASE_SERVICE_ROLE_KEY])]
                /\ pc' = [pc EXCEPT ![r] = "awaitFetch"]
                /\ UNCHANGED <<responses, uncaught>>

\* line 100: the datastore answers r's call with an HTTP status
FetchResolves(r, status) ==
  /\ pc[r] = "awaitFetch"
  /\ reply' = [reply EXCEPT ![r].fetch = "resolved", ![r].status = status]
  /\ pc' = [pc EXCEPT ![r] = IF status \in 200..299 THEN "awaitJson" ELSE "awaitText"]
  /\ UNCHANGED <<env, request, pathname, slug, domain, calls, responses, uncaught,
                 console>>

\* line 100: r's call fails in transport
FetchRejects(r) ==
  /\ pc[r] = "awaitFetch"
  /\ reply' = [reply EXCEPT ![r].fetch = "rejected"]
  /\ Resume(r, ResolverCatch(Throw("TypeError")))
  /\ UNCHANGED <<env, request, pathname, slug, domain>>

\* lines 110-113: the body of a non-2xx answer was read
TextResolves(r) ==
  /\ pc[r] = "awaitText"
  /\ reply' = [reply EXCEPT ![r].body = "resolved"]
  /\ Resume(r, [value |-> Null, log |-> <<"Supabase query failed:">>])
  /\ UNCHANGED <<env, request, pathname, slug, domain>>

\* line 111: reading the body of a non-2xx answer fails
TextRejects(r) ==
  /\ pc[r] = "awaitText"
  /\ reply' = [reply EXCEPT ![r].body = "rejected"]
  /\ Resume(r, ResolverCatch(Throw("TypeError")))
  /\ UNCHANGED <<env, request, pathname, slug, domain>>

\* lines 115-128: the body of a 2xx answer parsed to data
JsonResolves(r, data) ==
  /\ pc[r] = "awaitJson"
  /\ reply' = [reply EXCEPT ![r].body = "resolved", ![r].data = data]
  /\ Resume(r, ResolverCatch(ResolverBody(data)))
  /\ UNCHANGED <<env, request, pathname, slug, domain>>

\* line 115: the body of a 2xx answer is no JSON, or reading it fails
JsonRejects(r) ==
  /\ pc[r] = "awaitJson"
  /\ reply' = [reply EXCEPT ![r].body = "rejected"]
  /\ Resume(r, ResolverCatch(Throw("SyntaxError")))
  /\ UNCHANGED <<env, request, pathname, slug, domain>>

Next ==
  \/ \E r \in Ids : Start(r)
  \/ \E r \in Ids, status \in Statuses : FetchResolves(r, status)
  \/ \E r \in Ids : FetchRejects(r)
  \/ \E r \in Ids : TextResolves(r)
  \/ \E r \in Ids : TextRejects(r)
  \/ \E r \in Ids : JsonRejects(r)
  \/ \E r \in Ids, data \in Bodies : JsonResolves(r, data)

Spec == Init /\ [][Next]_vars

\* the runtime runs a handler that can run, and the HTTP client settles
\* every outbound call and every body read
FairSpec == Spec /\ WF_vars(Next)

(***************************************************************************)
(* extractSlug called on its own                                           *)
(***************************************************************************)
\* longest run of one character in a pathname argument
MaxPathLen == 32

\* the string of n characters c
RECURSIVE Repeat(_, _)
Repeat(c, n) ==
  IF n = 0 THEN <<>> ELSE <<c>> \o Repeat(c, n - 1)

\* pathname arguments: none, one or two leading slashes, a run of one
\* character of every length up to MaxPathLen, an ending of the run, and
\* what may follow a path; and the paths the code and its comments name
SlugInputs ==
  { lead \o Repeat(c, n) \o ending \o trail :
      lead \in {<<>>, <<"/">>, <<"/","/">>},
      c \in {"a", "Z", "7", "-", "_"},
      n \in 0..MaxPathLen,
      ending \in {<<>>, <<"Q">>, <<".">>, <<"-","9">>},
      trail \in {<<>>, <<"?","x","=","1">>, <<"#","x">>, <<"/">>} }
  \cup
  { <<"/">> \o INDEX_HTML, INDEX_HTML, <<"/">> \o INDEX_HTML \o <<"?","x">>,
    <<"/">> \o API_PREFIX \o <<"f","o","o">>, <<"/">> \o API_PREFIX,
    <<"/","a","p","i">>, <<"/","a","b","c","1","2","3">>,
    <<"/","A","B","-","1","2","?","x","=","1">> }

\* extractSlug is about to be called on pathname[r], nothing else exists
InitSlug ==
  /\ env \in {[SUPABASE_URL |-> Undefined, SUPABASE_SERVICE_ROLE_KEY |-> Undefined]}
  /\ request = [r \in {1} |-> <<>>]
  /\ pc = [r \in {1} |-> "call"]
  /\ pathname \in [{1} -> {Str(p) : p \in SlugInputs}]
  /\ slug = [r \in {1} |-> Undefined]
  /\ domain = [r \in {1} |-> Undefined]
  /\ calls = [r \in {1} |-> <<>>]
  /\ reply = [r \in {1} |-> NoReply]
  /\ responses = [r \in {1} |-> <<>>]
  /\ uncaught = [r \in {1} |-> FALSE]
  /\ console = <<>>

\* lines 24-40: extractSlug(pathname[r]) returns
CallExtractSlug(r) ==
  /\ pc[r] = "call"
  /\ slug' = [slug EXCEPT ![r] = extractSlug(pathname[r].s)]
  /\ pc' = [pc EXCEPT ![r] = "returned"]
  /\ UNCHANGED <<env, request, pathname, domain, calls, reply, responses, uncaught,
                 console>>

NextSlug ==
  \E r \in Ids : CallExtractSlug(r)

SlugSpec == InitSlug /\ [][NextSlug]_vars

(***************************************************************************)
(* Several requests in flight: the runtime runs one handler per request    *)
(* and interleaves them at their awaits                                    *)
(***************************************************************************)
MaxRequests == 2

\* a request for a slug with a query, and a request without a slug
ConcURLs ==
  { HTTPS \o <<"w","w","w",".","g",".","a","i","/","a","b","c","?">> \o REF \o <<"=","x">>,
    HTTPS \o <<"g",".","i","o","/">> }

ConcEnvs ==
  [ SUPABASE_URL : {Str(HTTPS \o <<"d","b",".","c","o">>)},
    SUPABASE_SERVICE_ROLE_KEY : {Undefined, Str(<<"k">>)} ]

\* no row, and a row that passes the inbound query on
ConcBodies ==
  { Arr(<<>>),
    Arr(<<Row(Str(X_CO), Bool(TRUE), Bool(TRUE), Str(<<"n","l">>), Undefined,
              Undefined, Undefined)>>) }

ConcStatuses == {200, 500}

InitConc ==
  InitWith(1..MaxRequests, ConcEnvs, ConcURLs)

NextConc ==
  \/ \E r \in Ids : Start(r)
  \/ \E r \in Ids, status \in ConcStatuses : FetchResolves(r, status)
  \/ \E r \in Ids : FetchRejects(r)
  \/ \E r \in Ids : TextResolves(r)
  \/ \E r \in Ids : TextRejects(r)
  \/ \E r \in Ids : JsonRejects(r)
  \/ \E r \in Ids, data \in ConcBodies : JsonResolves(r, data)

ConcSpec == InitConc /\ [][NextConc]_vars

(***************************************************************************)
(* Properties                                                              *)
(***************************************************************************)
\* the parsed URL of request r
ReqURL(r) == ParseURL(request[r])

\* the first row of the body the datastore answered r with
FirstRow(r) == GetProp(reply[r].data, "0")

\* the one response of a finished request
TheResponse(r) == responses[r][1]

\* the 404 response as the caller sees it
NotFound404 ==
  [t |-> "response", status |-> 404, body |-> "Link not found",
   headers |-> [ContentType |-> "text/plain"]]

\* both configuration values are present and non-empty
ConfigPresent ==
  /\ env.SUPABASE_URL.t = "string" /\ env.SUPABASE_URL.s # <<>>
  /\ env.SUPABASE_SERVICE_ROLE_KEY.t = "string" /\ env.SUPABASE_SERVICE_ROLE_KEY.s # <<>>

\* no exception has left a handler, an unfinished handler has returned
\* nothing, a finished one has returned one response of status 301, 404, 500
OneResponse ==
  \A r \in Ids :
    /\ ~uncaught[r]
    /\ pc[r] # "done" => responses[r] = <<>>
    /\ pc[r] = "done" =>
         /\ Len(responses[r]) = 1
         /\ TheResponse(r).status \in {301, 404, 500}

\* C1: whatever the request and whatever the datastore does (any rows, a
\* non-2xx status, a transport or parse exception), the handler ends, with
\* exactly one response, whose status is 301, 404 or 500: never with none,
\* with two, or with an exception leaving the handler.
C1_ExactlyOneResponse ==
  /\ []OneResponse
  /\ <>(\A r \in Ids : pc[r] = "done")

\* a datastore fault or a row that cannot be composed ended in one response
C1_Witness ==
  \E r \in Ids :
    /\ pc[r] = "done"
    /\ reply[r].body = "resolved"
    /\ reply[r].status = 200
    /\ Len(responses[r]) = 1
    /\ TheResponse(r).status = 500

\* C2: when the datastore URL or the credential is missing, the handler
\* answers with the 500 configuration error before anything else: no slug
\* is extracted, no datastore call is issued, also for a path without slug.
C2_ConfigErrorFirst ==
  ~ConfigPresent =>
    \A r \in Ids :
      /\ slug[r] = Undefined
      /\ domain[r] = Undefined
      /\ calls[r] = <<>>
      /\ pc[r] \in {"start", "done"}
      /\ pc[r] = "done" =>
           /\ Len(responses[r]) = 1
           /\ TheResponse(r).status = 500
           /\ TheResponse(r).body = "Service configuration error"

\* only the credential is missing, the path is "/" and the answer is 500
C2_Witness ==
  \E r \in Ids :
    /\ env.SUPABASE_URL.t = "string" /\ env.SUPABASE_URL.s # <<>>
    /\ env.SUPABASE_SERVICE_ROLE_KEY = Undefined
    /\ ReqURL(r).pathname = <<"/">>
    /\ pc[r] = "done"
    /\ TheResponse(r).status = 500

\* C3: with the configuration present, a request whose path gives no slug
\* gets the 404 "Link not found" response with no domain normalised and no
\* datastore call; a call is issued only with a valid slug extracted.
C3_NoSlugShortCircuit ==
  ConfigPresent =>
    \A r \in Ids :
      /\ (pc[r] # "start" /\ slug[r] = Null) =>
           /\ pc[r] = "done"
           /\ responses[r] = <<NotFound404>>
           /\ domain[r] = Undefined
           /\ calls[r] = <<>>
           /\ reply[r].fetch = "pending"
      /\ calls[r] # <<>> =>
           /\ slug[r].t = "string"
           /\ Len(slug[r].s) \in 3..30
           /\ slug[r].s = calls[r][1].slug

\* the path "/ab" gave no slug and the request ended with the 404
C3_Witness ==
  \E r \in Ids :
    /\ ConfigPresent
    /\ ReqURL(r).pathname = <<"/","a","b">>
    /\ slug[r] = Null
    /\ pc[r] = "done"
    /\ TheResponse(r).status = 404

\* r finished after the datastore answered 2xx with a JSON body
BodyParsed(r) ==
  /\ pc[r] = "done"
  /\ reply[r].fetch = "resolved"
  /\ reply[r].status \in 200..299
  /\ reply[r].body = "resolved"

\* r finished after the datastore answered with an array whose first
\* element is a row object
RowReturned(r) ==
  /\ BodyParsed(r)
  /\ reply[r].data.t = "array"
  /\ Len(reply[r].data.items) >= 1
  /\ reply[r].data.items[1].t = "object"

\* the body is a JSON array of row objects, with at least one row
IsRowArray(data) ==
  /\ data.t = "array"
  /\ Len(data.items) >= 1
  /\ \A i \in 1..Len(data.items) : data.items[i].t = "object"

\* r finished after a datastore fault: a transport exception, a non-2xx
\* status, a body that could not be read or parsed, an empty array, or a
\* body that is no JSON array of row objects
DatastoreFault(r) ==
  /\ pc[r] = "done"
  /\ \/ reply[r].fetch = "rejected"
     \/ reply[r].fetch = "resolved" /\ reply[r].status \notin 200..299
     \/ reply[r].body = "rejected"
     \/ BodyParsed(r) /\ ~IsRowArray(reply[r].data)

\* C4: with valid configuration and a valid slug, every datastore fault
\* (non-2xx status, empty array, a body that is no JSON array of row
\* objects, a transport or parse exception) gives the 404, never a 500.
C4_FaultsGive404 ==
  \A r \in Ids :
    (ConfigPresent /\ slug[r].t = "string" /\ DatastoreFault(r))
      => responses[r] = <<NotFound404>>

\* r finished for one of the not-found causes: invalid slug shape, no
\* matching record, inactive record, datastore communication or parse
\* failure
NotFoundCause(r) ==
  /\ pc[r] = "done"
  /\ ConfigPresent
  /\ \/ slug[r] = Null
     \/ reply[r].fetch = "rejected"
     \/ reply[r].fetch = "resolved" /\ reply[r].status \notin 200..299
     \/ reply[r].body = "rejected"
     \/ BodyParsed(r) /\ reply[r].data = Arr(<<>>)
     \/ RowReturned(r) /\ GetProp(FirstRow(r), "status") = Bool(FALSE)

\* C5: the caller sees the same response (status 404, body "Link not
\* found", the same headers) for every not-found cause, so two runs that
\* differ only in the cause cannot be told apart, and the body never names
\* the cause.
C5_NotFoundIndistinguishable ==
  \A r \in Ids : NotFoundCause(r) => responses[r] = <<NotFound404>>

\* an inactive record with an absolute target_url ended in the 404, and
\* the cause is visible in no part of the response
C5_Witness ==
  \E r \in Ids :
    /\ RowReturned(r)
    /\ GetProp(FirstRow(r), "status") = Bool(FALSE)
    /\ GetProp(FirstRow(r), "target_url") = Str(X_CO)
    /\ responses[r] = <<NotFound404>>

\* the target_url values that are absolute URLs
AbsoluteTargets == {Str(X_CO), Str(D_EX)}

ActiveWithTargetString(r) ==
  /\ RowReturned(r)
  /\ GetProp(FirstRow(r), "status") # Bool(FALSE)
  /\ GetProp(FirstRow(r), "target_url").t = "string"
  /\ GetProp(FirstRow(r), "target_url").s # <<>>

\* C7: an active record whose target_url is a non-empty string that is no
\* absolute URL gives the 500, never the 301 or the 404, whatever the
\* inbound query string.
C7_MalformedTargetGives500 ==
  \A r \in Ids :
    ( /\ ActiveWithTargetString(r)
      /\ GetProp(FirstRow(r), "target_url") \notin AbsoluteTargets )
      => /\ Len(responses[r]) = 1
         /\ TheResponse(r).status = 500

\* the target_url "x.co/p" of an active record with an inbound query string
\* gave the 500
C7_Witness ==
  \E r \in Ids :
    /\ ActiveWithTargetString(r)
    /\ GetProp(FirstRow(r), "target_url") = Str(<<"x",".","c","o","/","p">>)
    /\ ReqURL(r).query # <<>>
    /\ TheResponse(r).status = 500

\* the first row is active and its target_url is absent, null or empty
ActiveWithoutTarget(r) ==
  /\ RowReturned(r)
  /\ GetProp(FirstRow(r), "status") # Bool(FALSE)
  /\ GetProp(FirstRow(r), "target_url") \in {Undefined, Null, Str(<<>>)}

\* C8 as stated: an active record whose target_url is absent, null or the
\* empty string makes the composer fail, and the caller receives a 500,
\* not the 404 "Link not found".
C8_MissingTargetGives500 ==
  \A r \in Ids :
    ActiveWithoutTarget(r) =>
      /\ Len(responses[r]) = 1
      /\ TheResponse(r).status = 500

\* C8 amended: an active record whose target_url is absent, null or the
\* empty string is handled as a missing link: the composer is not called
\* and the caller receives the 404 "Link not found".
C8_MissingTargetGives404 ==
  \A r \in Ids :
    ActiveWithoutTarget(r) =>
      /\ responses[r] = <<NotFound404>>
      /\ \A i \in 1..Len(console) : console[i] # <<r, "Redirecting to:">>

\* an active record without target_url field ended in the 404
C8_Witness ==
  \E r \in Ids :
    /\ ActiveWithoutTarget(r)
    /\ GetProp(FirstRow(r), "status") = Bool(TRUE)
    /\ GetProp(FirstRow(r), "target_url") = Undefined
    /\ TheResponse(r).status = 404

\* the first row is active and its target_url is an absolute URL
ActiveWithAbsoluteTarget(r) ==
  /\ ConfigPresent
  /\ slug[r].t = "string"
  /\ ActiveWithTargetString(r)
  /\ GetProp(FirstRow(r), "target_url") \in AbsoluteTargets

\* the record configures no UTM field and no pass-through
PlainRow(row) ==
  /\ \A f \in {"utm_source", "utm_medium", "utm_campaign", "utm_content"} :
       GetProp(row, f) = Undefined
  /\ GetProp(row, "parameter_pass_through") = Undefined

\* C9: with valid configuration and a valid slug, a first row that is
\* active and has an absolute target_url gives a 301 whose Location is
\* exactly the URL the composer produces from that row and the inbound
\* query string; target_url "https://x.co" with no UTM field and no
\* pass-through gives Location "https://x.co/".
C9_RedirectToComposedUrl ==
  \A r \in Ids :
    ActiveWithAbsoluteTarget(r) =>
      /\ responses[r] =
           << [t       |-> "response",
               status  |-> 301,
               body    |-> "",
               headers |-> [Location |->
                 buildTargetUrl(GetProp(FirstRow(r), "target_url"),
                                FirstRow(r), ReqURL(r)).value.s]] >>
      /\ ( /\ GetProp(FirstRow(r), "target_url") = Str(X_CO)
           /\ PlainRow(FirstRow(r)) )
           => TheResponse(r).headers.Location = X_CO \o <<"/">>

\* the record of the end-to-end example redirected to "https://x.co/"
C9_Witness ==
  \E r \in Ids :
    /\ ActiveWithAbsoluteTarget(r)
    /\ GetProp(FirstRow(r), "target_url") = Str(X_CO)
    /\ GetProp(FirstRow(r), "status") = Bool(TRUE)
    /\ PlainRow(FirstRow(r))
    /\ TheResponse(r).status = 301
    /\ TheResponse(r).headers.Location = X_CO \o <<"/">>

\* the values of the pairs of list named name, in order
RECURSIVE ValuesOf(_, _)
ValuesOf(list, name) ==
  IF list = <<>> THEN <<>>
  ELSE (IF Head(list)[1] = name THEN <<Head(list)[2]>> ELSE <<>>)
         \o ValuesOf(Tail(list), name)

\* the four UTM fields of a record with their query parameter names
UtmFields ==
  { <<"utm_source", UTM_SOURCE>>, <<"utm_medium", UTM_MEDIUM>>,
    <<"utm_campaign", UTM_CAMPAIGN>>, <<"utm_content", UTM_CONTENT>> }

\* r was redirected for a record with parameter_pass_through true
PassedThrough(r) ==
  /\ ActiveWithAbsoluteTarget(r)
  /\ GetProp(FirstRow(r), "parameter_pass_through") = Bool(TRUE)
  /\ Len(responses[r]) = 1
  /\ TheResponse(r).status = 301

\* C10: with parameter_pass_through true, an inbound parameter named
\* utm_source, utm_medium, utm_campaign or utm_content never sets or
\* overwrites that key on the target: a UTM field configured on the record
\* appears once, with the record's value, and a UTM key the record does not
\* configure keeps what target_url had for it; every inbound parameter with
\* another key is set on the target, to its last inbound value.
C10_UtmNeverOverwritten ==
  \A r \in Ids :
    PassedThrough(r) =>
      LET loc == URLSearchParams(Search(ParseURL(TheResponse(r).headers.Location)))
          tgt == URLSearchParams(Search(ParseURL(GetProp(FirstRow(r), "target_url").s)))
          inb == URLSearchParams(Search(ReqURL(r)))
      IN  /\ \A fk \in UtmFields :
               IF Truthy(GetProp(FirstRow(r), fk[1]))
               THEN ValuesOf(loc, fk[2]) = <<GetProp(FirstRow(r), fk[1]).s>>
               ELSE ValuesOf(loc, fk[2]) = ValuesOf(tgt, fk[2])
          /\ \A i \in 1..Len(inb) :
               inb[i][1] \notin {fk[2] : fk \in UtmFields} =>
                 LET vs == ValuesOf(inb, inb[i][1])
                 IN  ValuesOf(loc, inb[i][1]) = <<vs[Len(vs)]>>

\* record utm_source "nl" with inbound ?utm_source=hack&ref=x gave
\* utm_source=nl and ref=x
C10_Witness ==
  \E r \in Ids :
    /\ PassedThrough(r)
    /\ GetProp(FirstRow(r), "utm_source") = Str(<<"n","l">>)
    /\ URLSearchParams(Search(ReqURL(r))) = << <<UTM_SOURCE, HACK>>, <<REF, <<"x">> >> >>
    /\ LET loc == URLSearchParams(Search(ParseURL(TheResponse(r).headers.Location)))
       IN  /\ ValuesOf(loc, UTM_SOURCE) = << <<"n","l">> >>
           /\ ValuesOf(loc, REF) = << <<"x">> >>

\* the names of the pairs of list
NamesOf(list) ==
  {list[i][1] : i \in 1..Len(list)}

\* r was redirected for a record whose parameter_pass_through is false or
\* absent
NotPassedThrough(r) ==
  /\ ActiveWithAbsoluteTarget(r)
  /\ GetProp(FirstRow(r), "parameter_pass_through") \in {Undefined, Bool(FALSE)}
  /\ Len(responses[r]) = 1
  /\ TheResponse(r).status = 301

\* C11: when parameter_pass_through is false or absent, no inbound query
\* parameter is copied: for every name, the composed URL holds the record's
\* value when the name is a UTM field the record configures, and otherwise
\* exactly what target_url held for it, whatever the inbound query string.
C11_NoPassThroughWhenOff ==
  \A r \in Ids :
    NotPassedThrough(r) =>
      LET loc == URLSearchParams(Search(ParseURL(TheResponse(r).headers.Location)))
          tgt == URLSearchParams(Search(ParseURL(GetProp(FirstRow(r), "target_url").s)))
          inb == URLSearchParams(Search(ReqURL(r)))
      IN  /\ \A fk \in UtmFields :
               Truthy(GetProp(FirstRow(r), fk[1]))
                 => ValuesOf(loc, fk[2]) = <<GetProp(FirstRow(r), fk[1]).s>>
          /\ \A k \in NamesOf(loc) \cup NamesOf(tgt) \cup NamesOf(inb) :
               (\A fk \in UtmFields :
                  fk[2] = k => ~Truthy(GetProp(FirstRow(r), fk[1])))
                 => ValuesOf(loc, k) = ValuesOf(tgt, k)

\* parameter_pass_through false with inbound ?ref=x gave a URL without ref
C11_Witness ==
  \E r \in Ids :
    /\ NotPassedThrough(r)
    /\ GetProp(FirstRow(r), "parameter_pass_through") = Bool(FALSE)
    /\ URLSearchParams(Search(ReqURL(r))) = << <<REF, <<"x">> >> >>
    /\ REF \notin NamesOf(
         URLSearchParams(Search(ParseURL(TheResponse(r).headers.Location))))

\* what is left of pathname p after one leading "/" is stripped and
\* everything from the first "?" or "#" on is discarded
Remainder(p) ==
  LET q == IF p # <<>> /\ p[1] = "/" THEN SubSeq(p, 2, Len(p)) ELSE p
      cuts == {i \in 1..Len(q) : q[i] \in {"?", "#"}}
  IN  IF cuts = {} THEN q
      ELSE SubSeq(q, 1, (CHOOSE i \in cuts : \A j \in cuts : i <= j) - 1)

\* 3 to 30 characters, each of [A-Za-z0-9-]
SlugShaped(rem) ==
  /\ Len(rem) \in 3..30
  /\ \A i \in 1..Len(rem) :
       rem[i] \in Range(LowerCase) \cup Range(UpperCase) \cup Digits \cup {"-"}

\* C12: extractSlug returns the remainder of the path (one leading "/"
\* stripped, everything from the first "?" or "#" on discarded) lower-cased
\* exactly when the remainder is 3 to 30 characters of [A-Za-z0-9-], and
\* "no slug" otherwise; every slug returned matches [a-z0-9-]{3,30}.
C12_ExtractSlug ==
  \A r \in Ids :
    pc[r] = "returned" =>
      LET rem == Remainder(pathname[r].s)
      IN  /\ SlugShaped(rem) =>
               /\ slug[r].t = "string"
               /\ Len(slug[r].s) = Len(rem)
               /\ \A i \in 1..Len(rem) :
                    slug[r].s[i] = IF \E k \in 1..26 : UpperCase[k] = rem[i]
                                   THEN LowerCase[CHOOSE k \in 1..26 : UpperCase[k] = rem[i]]
                                   ELSE rem[i]
          /\ ~SlugShaped(rem) => slug[r] = Null
          /\ slug[r] # Null =>
               /\ Len(slug[r].s) \in 3..30
               /\ \A i \in 1..Len(slug[r].s) :
                    slug[r].s[i] \in Range(LowerCase) \cup Digits \cup {"-"}
          /\ ( rem = <<>> \/ rem = INDEX_HTML \/ Len(rem) \in {2, 31}
               \/ (Len(rem) >= 4 /\ SubSeq(rem, 1, 4) = API_PREFIX)
               \/ (rem # <<>> /\ rem[1] = "/") )
               => slug[r] = Null

\* "/AB-12?x=1" gave "ab-12"
C12_Witness ==
  \E r \in Ids :
    /\ pc[r] = "returned"
    /\ pathname[r] = Str(<<"/","A","B","-","1","2","?","x","=","1">>)
    /\ slug[r] = Str(<<"a","b","-","1","2">>)

G_AI == <<"g",".","a","i">>

\* C13: the domain of the datastore lookup is the request hostname with one
\* leading "www." removed when the hostname starts with it, and the
\* hostname unchanged otherwise: "www.g.ai" gives "g.ai", "g.io" stays,
\* "www.www.g.ai" gives "www.g.ai", "a.www.g.ai" and "wwwx.io" stay.
C13_DomainNormalized ==
  \A r \in Ids :
    calls[r] # <<>> =>
      LET h == ReqURL(r).hostname
          d == calls[r][1].domain
      IN  /\ domain[r] = Str(d)
          /\ IF Len(h) >= 4 /\ SubSeq(h, 1, 4) = <<"w","w","w",".">>
             THEN d = SubSeq(h, 5, Len(h))
             ELSE d = h
          /\ h = <<"w","w","w",".">> \o G_AI => d = G_AI
          /\ h = <<"g",".","i","o">> => d = <<"g",".","i","o">>
          /\ h = <<"w","w","w",".","w","w","w",".">> \o G_AI
               => d = <<"w","w","w",".">> \o G_AI
          /\ h = <<"a",".","w","w","w",".">> \o G_AI => d = h
          /\ h = <<"w","w","w","x",".","i","o">> => d = h

\* the lookup for host "www.www.g.ai" was issued for domain "www.g.ai"
C13_Witness ==
  \E r \in Ids :
    /\ calls[r] # <<>>
    /\ ReqURL(r).hostname = <<"w","w","w",".","w","w","w",".">> \o G_AI
    /\ calls[r][1].domain = <<"w","w","w",".">> \o G_AI

\* the resolver of r has its outcome: the call failed in transport, or the
\* body of the answer was read or could not be read
Settled(r) ==
  reply[r].fetch = "rejected" \/ reply[r].body # "pending"

\* the outcome is one of the failures: a non-2xx status, an empty result, or
\* an exception in the call, the read or the parse
LookupFailed(r) ==
  \/ reply[r].fetch = "rejected"
  \/ reply[r].body = "rejected"
  \/ reply[r].body = "resolved" /\ reply[r].status \notin 200..299
  \/ reply[r].body = "resolved" /\ reply[r].data \in {Null, Arr(<<>>)}

\* C14: a request issues at most one datastore call whatever its outcome; a
\* call is only ever issued by a handler that has issued none, and the step
\* in which the outcome of the call becomes known (non-2xx status, empty
\* result, exception, or a row) is the step in which the handler returns its
\* one response, with the call not repeated.
C14_AtMostOneCall ==
  /\ [](\A r \in Ids :
          /\ Len(calls[r]) <= 1
          /\ pc[r] \in {"awaitFetch", "awaitText", "awaitJson"} => Len(calls[r]) = 1
          /\ Settled(r) => /\ pc[r] = "done"
                           /\ Len(calls[r]) = 1
                           /\ Len(responses[r]) = 1)
  /\ [][\A r \in Ids :
          /\ calls'[r] # calls[r] => calls[r] = <<>> /\ pc[r] = "start"
          /\ pc[r] = "done" => pc'[r] = "done"]_vars

\* a call answered with a non-2xx status, and one answered with an empty
\* array, ended in a 404 after the single call
C14_Witness ==
  \E r \in Ids :
    /\ pc[r] = "done"
    /\ LookupFailed(r)
    /\ reply[r].fetch = "resolved"
    /\ reply[r].status = 500 \/ reply[r].data = Arr(<<>>)
    /\ Len(calls[r]) = 1
    /\ TheResponse(r) = NotFound404

\* the response the handler gives for request URL u under configuration e
\* when the datastore answers its call with rep
ExpectedResponse(e, u, rep) ==
  IF ConfigMissing(e) THEN ConfigErrorResponse
  ELSE
    LET url == ParseURL(u)
    IN  IF IsThrow(url) THEN InternalErrorResponse
        ELSE IF SlugRejected(extractSlug(url.pathname)) THEN SlugNotFoundResponse
        ELSE LET found ==
                   IF \/ rep.fetch = "rejected"
                      \/ rep.body = "rejected"
                      \/ rep.status \notin 200..299
                   THEN Null
                   ELSE ResolverCatch(ResolverBody(rep.data)).value
             IN  HandlerCatch(HandlerTail(found, url)).completion

\* what a handler keeps for request r
Locals(r) ==
  <<pathname[r], slug[r], domain[r], calls[r], reply[r], responses[r],
    uncaught[r]>>

\* C15: with several requests in flight in any interleaving, the response
\* of each request is the one determined by its own URL, the configuration
\* and the datastore reply to its own call: two requests with the same URL
\* and the same reply get the same response, and a step of one handler
\* changes nothing that another handler keeps, nor the configuration, nor
\* any request.
C15_RequestsIndependent ==
  /\ [](\A r \in Ids :
          pc[r] = "done" =>
            /\ ~uncaught[r]
            /\ responses[r] = <<ExpectedResponse(env, request[r], reply[r])>>
            /\ \A q \in Ids :
                 pc[q] = "done" /\ request[q] = request[r] /\ reply[q] = reply[r]
                   => responses[q] = responses[r])
  /\ [][/\ env' = env
        /\ request' = request
        /\ \A r \in Ids : pc'[r] = pc[r] => Locals(r)' = Locals(r)
        /\ \A r, q \in Ids : pc'[r] # pc[r] /\ pc'[q] # pc[q] => r = q]_vars

\* two requests for the same URL, answered differently by the datastore,
\* got a redirect and a 404, the second handler having run between two
\* steps of the first
C15_Witness ==
  /\ Cardinality(Ids) >= 2
  /\ pc[1] = "done" /\ pc[2] = "done"
  /\ request[1] = request[2]
  /\ reply[1] # reply[2]
  /\ TheResponse(1).status = 301 /\ TheResponse(2).status = 404
  /\ \E i, j, k \in 1..Len(console) :
       /\ i < j /\ j < k
       /\ console[i][1] = 1 /\ console[j][1] = 2 /\ console[k][1] = 1

=============================================================================
